---------------------------- MODULE Spec2Model ----------------------------
(***************************************************************************)
(* Model of the analytics service of the backtester: the trading           *)
(* configuration (config.py), the query layer (calculations/trades.py,     *)
(* calculations/pairs.py), the day-stepped simulation and the metrics      *)
(* aggregator (calculations/portfolio.py) and the three performance        *)
(* endpoints of main.py that drive them.                                   *)
(*                                                                         *)
(* Numbers.  The code computes with Python/NumPy floats; the model         *)
(* computes with exact rationals <<numerator, denominator>> (denominator   *)
(* > 0, lowest terms).  <<0, 0>> stands for Python's None.                 *)
(*                                                                         *)
(* Dates.  entry_date and exit_date are calendar days (midnight            *)
(* timestamps), numbered 1..MaxDay.                                        *)
(*                                                                         *)
(* Row identifiers.  A loaded table carries pandas' default RangeIndex;    *)
(* the model's identifier of a row is its position in the loaded table,    *)
(* which filtering and sorting keep.                                       *)
(***************************************************************************)
EXTENDS Integers, Sequences, FiniteSets, TLC

\* Largest calendar day of a trade table.
MaxDay == 3
\* Largest number of rows of a loaded trade table.
MaxTrades == 2

VARIABLES
    pc,                 \* position of the request handler
    request,            \* the endpoint called and its query parameters
    df,                 \* the trade table load_strategy returned
    config,             \* the trading configuration of the run
    trades,             \* row ids handed to the engine, sorted (line 33)
    date_range,         \* <<first day, last day>> of the simulation
    date,               \* the day the loop is at
    new_trades,         \* row ids of the day's entries still to process
    closed_trades,      \* row ids of the day's exits still to process
    available_capital,
    invested_capital,
    active_positions,   \* row id -> open position
    skipped_trades,
    trade_performances,
    trade_costs,
    daily,              \* [entry_costs, exit_costs, pnl] of the day
    ts_data,            \* the day rows written so far
    report,             \* <<>> or <<the metrics report>>
    performance,        \* what the calculation layer returned or raised
    response,           \* HTTP status the endpoint answered
    shared_config,      \* config.py's module-level trading_config dict
    earlier,            \* outcomes of the requests the process has served
    other,              \* <<>> or <<the suspended concurrent run's locals>>
    jobs,               \* notebook runner: job_id -> [status, progress]
    tasks,              \* job_id -> where its run_notebook task stands
    status_response     \* what GET /status answered last: <<>>, <<entry>>
                        \* or <<"404", detail>>

vars == <<pc, request, df, config, trades, date_range, date, new_trades,
          closed_trades, available_capital, invested_capital,
          active_positions, skipped_trades, trade_performances, trade_costs,
          daily, ts_data, report, performance, response, shared_config,
          earlier, other, jobs, tasks, status_response>>

\* What outlives one request or belongs to another one.
process_vars == <<shared_config, earlier, other>>

\* The state of the notebook-runner service, a process of its own.
runner_vars == <<jobs, tasks, status_response>>

\* The state of the analytics service.
analytics_vars == <<pc, request, df, config, trades, date_range, date,
                    new_trades, closed_trades, available_capital,
                    invested_capital, active_positions, skipped_trades,
                    trade_performances, trade_costs, daily, ts_data, report,
                    performance, response, shared_config, earlier, other>>

-----------------------------------------------------------------------------
(* Exact rational arithmetic *)

Abs(n) == IF n < 0 THEN -n ELSE n

RECURSIVE GCD(_, _)
GCD(a, b) == IF b = 0 THEN a ELSE GCD(b, a % b)

Norm(n, d) ==
    LET g == GCD(Abs(n), Abs(d))
        s == IF d < 0 THEN -1 ELSE 1
    IN  <<(s * n) \div g, (s * d) \div g>>

Q(n) == <<n, 1>>
Frac(n, d) == Norm(n, d)
Zero == Q(0)
None == <<0, 0>>

\* Sums and comparisons go through the least common denominator.
Add(a, b) ==
    LET g == GCD(a[2], b[2])
    IN  Norm(a[1] * (b[2] \div g) + b[1] * (a[2] \div g), (a[2] \div g) * b[2])
Neg(a) == <<-a[1], a[2]>>
Sub(a, b) == Add(a, Neg(b))
Mul(a, b) ==
    LET g1 == GCD(Abs(a[1]), b[2])
        g2 == GCD(Abs(b[1]), a[2])
    IN  Norm((a[1] \div g1) * (b[1] \div g2), (a[2] \div g2) * (b[2] \div g1))
\* b # 0
Div(a, b) == Mul(a, Norm(b[2], b[1]))
Lt(a, b) ==
    LET g == GCD(a[2], b[2])
    IN  a[1] * (b[2] \div g) < b[1] * (a[2] \div g)
Le(a, b) == ~Lt(b, a)
Gt(a, b) == Lt(b, a)
Ge(a, b) == ~Lt(a, b)
\* Python's min(a, b): b only when b < a.
Min2(a, b) == IF Lt(b, a) THEN b ELSE a

RECURSIVE Sum(_)
Sum(s) == IF s = <<>> THEN Zero ELSE Add(Sum(SubSeq(s, 1, Len(s) - 1)), s[Len(s)])

RECURSIVE MaxOf(_)
MaxOf(s) ==
    IF Len(s) = 1 THEN s[1]
    ELSE LET m == MaxOf(SubSeq(s, 1, Len(s) - 1))
         IN  IF Gt(s[Len(s)], m) THEN s[Len(s)] ELSE m

RECURSIVE MinOf(_)
MinOf(s) ==
    IF Len(s) = 1 THEN s[1]
    ELSE LET m == MinOf(SubSeq(s, 1, Len(s) - 1))
         IN  IF Lt(s[Len(s)], m) THEN s[Len(s)] ELSE m

-----------------------------------------------------------------------------
(* config.py *)

ConfigKeys == {"initial_capital", "position_size_percent", "fixed_commission",
               "variable_fee", "bid_ask_spread", "risk_free_rate"}

trading_config ==
    [initial_capital       |-> Q(100000),
     position_size_percent |-> Frac(1, 100),
     fixed_commission      |-> Q(1),
     variable_fee          |-> Frac(18, 100000),
     bid_ask_spread        |-> Frac(1, 1000),
     risk_free_rate        |-> Zero]

\* Faulty variant of custom_config: the keys given a truthy value, so a
\* supplied 0 is taken for absent.
custom_config_truthy(params) ==
    {k \in ConfigKeys : params[k] # None /\ params[k] # Zero}

\* custom_config of get_trading_config: the keys given a value other than None.
custom_config(params) == {k \in ConfigKeys : params[k] # None}

\* Faulty variant of validate_trading_params: the upper edge of
\* position_size_percent is let through (0 < p <= 1).
validate_percent_closed(params) ==
    LET given(k) == params[k] # None
    IN  \/ given("initial_capital") /\ Le(params.initial_capital, Zero)
        \/ given("position_size_percent")
             /\ ~(Lt(Zero, params.position_size_percent)
                    /\ Le(params.position_size_percent, Q(1)))
        \/ given("fixed_commission") /\ Lt(params.fixed_commission, Zero)
        \/ given("variable_fee") /\ Lt(params.variable_fee, Zero)
        \/ given("bid_ask_spread") /\ Lt(params.bid_ask_spread, Zero)
        \/ given("risk_free_rate") /\ Lt(params.risk_free_rate, Zero)

\* TRUE when validate_trading_params raises HTTPException(400).
validate_trading_params(params) ==
    LET given(k) == k \in custom_config(params)
    IN  \/ given("initial_capital") /\ Le(params.initial_capital, Zero)
        \/ given("position_size_percent")
             /\ ~(Lt(Zero, params.position_size_percent)
                    /\ Lt(params.position_size_percent, Q(1)))
        \/ given("fixed_commission") /\ Lt(params.fixed_commission, Zero)
        \/ given("variable_fee") /\ Lt(params.variable_fee, Zero)
        \/ given("bid_ask_spread") /\ Lt(params.bid_ask_spread, Zero)
        \/ given("risk_free_rate") /\ Lt(params.risk_free_rate, Zero)

\* {**trading_config, **custom_config}, read from the module-level dict
\* as it is when the request is served.
get_trading_config(params) ==
    [k \in ConfigKeys |->
        IF k \in custom_config(params) THEN params[k] ELSE shared_config[k]]

-----------------------------------------------------------------------------
(* calculations/trades.py, calculations/pairs.py: the query layer *)

RowIds(table) == [i \in 1..Len(table) |-> i]

\* symbol_filter of get_symbol_performance.
symbol_filter(table, req) ==
    LET keep(i) == /\ table[i].symbol = req.symbol
                   /\ (req.has_window => table[i].window = req.window)
    IN  SelectSeq(RowIds(table), keep)

\* pair_filter of get_pair_performance.
pair_filter(table, req) ==
    LET keep(i) == /\ \/ table[i].symbol = req.symbol
                            /\ table[i].paired_symbol = req.symbol2
                      \/ table[i].symbol = req.symbol2
                            /\ table[i].paired_symbol = req.symbol
                   /\ (req.has_window => table[i].window = req.window)
    IN  SelectSeq(RowIds(table), keep)

\* The rows the endpoint hands to the engine.
selected(table, req) ==
    CASE req.endpoint = "trades" -> RowIds(table)
      [] req.endpoint = "symbol" -> symbol_filter(table, req)
      [] req.endpoint = "pair"   -> pair_filter(table, req)

\* Faulty variant of returns_empty: the empty check is missing.
returns_empty_unguarded(table, req) == FALSE

\* `if symbol_trades.empty: return {}` / `if pair_trades.empty: return {}`;
\* get_trades_performance has no such guard.
returns_empty(table, req) ==
    req.endpoint \in {"symbol", "pair"} /\ selected(table, req) = <<>>

-----------------------------------------------------------------------------
(* calculations/portfolio.py: cost model *)

\* Faulty variant of calculate_trading_costs: the exit cost is charged
\* against position_size as well.
costs_of_position_size(position_size, exit_value, cfg) ==
    << Add(Add(cfg.fixed_commission, Mul(position_size, cfg.variable_fee)),
           Mul(position_size, cfg.bid_ask_spread)),
       Add(Add(cfg.fixed_commission, Mul(position_size, cfg.variable_fee)),
           Mul(position_size, cfg.bid_ask_spread)) >>

\* <<entry_costs, exit_costs>>
calculate_trading_costs(position_size, exit_value, cfg) ==
    << Add(Add(cfg.fixed_commission, Mul(position_size, cfg.variable_fee)),
           Mul(position_size, cfg.bid_ask_spread)),
       Add(Add(cfg.fixed_commission, Mul(exit_value, cfg.variable_fee)),
           Mul(exit_value, cfg.bid_ask_spread)) >>

\* The itemized costs of one side, against its notional.
cost_breakdown(value, cfg) ==
    [commission |-> cfg.fixed_commission,
     variable   |-> Mul(value, cfg.variable_fee),
     spread     |-> Mul(value, cfg.bid_ask_spread)]

\* Faulty variant of sum_values: the spread is left out of the sum.
sum_values_no_spread(b) == Add(b.commission, b.variable)

\* sum(breakdown.values())
sum_values(b) == Add(Add(b.commission, b.variable), b.spread)

-----------------------------------------------------------------------------
(* calculations/portfolio.py: the day-stepped simulation *)

\* Faulty variant of sort_key_le: the table is sorted by entry_date alone.
sort_key_entry_only(table, i, j) ==
    table[i].entry_date <= table[j].entry_date

\* Order of two rows under sort_values(['entry_date', 'exit_date']).
sort_key_le(table, i, j) ==
    \/ table[i].entry_date < table[j].entry_date
    \/ /\ table[i].entry_date = table[j].entry_date
       /\ table[i].exit_date <= table[j].exit_date

\* ids with x put after every id that does not sort after it (stable).
RECURSIVE insert_sorted(_, _, _)
insert_sorted(table, ids, x) ==
    IF ids = <<>> THEN <<x>>
    ELSE IF sort_key_le(table, ids[Len(ids)], x) THEN Append(ids, x)
    ELSE Append(insert_sorted(table, SubSeq(ids, 1, Len(ids) - 1), x),
                ids[Len(ids)])

\* df.sort_values(['entry_date', 'exit_date']): the row ids in sorted order.
RECURSIVE sort_values(_, _)
sort_values(table, ids) ==
    IF ids = <<>> THEN <<>>
    ELSE insert_sorted(table,
                       sort_values(table, SubSeq(ids, 1, Len(ids) - 1)),
                       ids[Len(ids)])

RECURSIVE min_entry_date(_, _)
min_entry_date(table, ids) ==
    IF Len(ids) = 1 THEN table[ids[1]].entry_date
    ELSE LET m == min_entry_date(table, Tail(ids))
             e == table[ids[1]].entry_date
         IN  IF e < m THEN e ELSE m

\* Faulty variant of max_exit_date: the range ends on the last entry_date.
RECURSIVE max_entry_date(_, _)
max_entry_date(table, ids) ==
    IF Len(ids) = 1 THEN table[ids[1]].entry_date
    ELSE LET m == max_entry_date(table, Tail(ids))
             e == table[ids[1]].entry_date
         IN  IF e > m THEN e ELSE m

RECURSIVE max_exit_date(_, _)
max_exit_date(table, ids) ==
    IF Len(ids) = 1 THEN table[ids[1]].exit_date
    ELSE LET m == max_exit_date(table, Tail(ids))
             e == table[ids[1]].exit_date
         IN  IF e > m THEN e ELSE m

\* df[df['entry_date'].dt.date == date.date()], as row ids in df's order.
entries_on(table, ids, d) ==
    LET on(i) == table[i].entry_date = d IN SelectSeq(ids, on)

\* Faulty variant of exits_on: only the trades entered on an earlier day
\* are offered to the exit loop.
exits_on_entered_before(table, ids, d) ==
    LET on(i) == table[i].exit_date = d /\ table[i].entry_date < d
    IN  SelectSeq(ids, on)

\* Faulty variant of exits_on: only the first trade exiting on the day is
\* offered to the exit loop.
exits_on_first_only(table, ids, d) ==
    LET on(i)  == table[i].exit_date = d
        exits  == SelectSeq(ids, on)
    IN  IF exits = <<>> THEN <<>> ELSE <<Head(exits)>>

\* df[df['exit_date'].dt.date == date.date()]
exits_on(table, ids, d) ==
    LET on(i) == table[i].exit_date = d IN SelectSeq(ids, on)

NoDaily == [entry_costs |-> Zero, exit_costs |-> Zero, pnl |-> Zero]

\* Faulty variant of candidate_position_size: sized against the initial
\* capital, capped by what is available.
candidate_of_initial_capital(available, cfg) ==
    Min2(Mul(cfg.initial_capital, cfg.position_size_percent), available)

\* min(available_capital * position_size_percent, available_capital)
candidate_position_size(available, cfg) ==
    Min2(Mul(available, cfg.position_size_percent), available)

\* Faulty variant of entry_skipped: an entry cost equal to the available
\* capital is let through.
entry_skipped_above(available, cfg) ==
    LET position_size == candidate_position_size(available, cfg)
    IN  \/ Le(position_size, Zero)
        \/ Gt(calculate_trading_costs(position_size, Zero, cfg)[1], available)

\* The two `continue` branches of the entry loop.
entry_skipped(available, cfg) ==
    LET position_size == candidate_position_size(available, cfg)
    IN  \/ Le(position_size, Zero)
        \/ Ge(calculate_trading_costs(position_size, Zero, cfg)[1], available)

\* Faulty variant of open_position: the units are the money committed, not
\* the money divided by the entry price.
open_position_units_as_size(trade, position_size, cfg) ==
    [units         |-> position_size,
     position_size |-> position_size,
     entry_price   |-> trade.entry_price,
     position_type |-> trade.position_type,
     entry_costs   |-> cost_breakdown(position_size, cfg)]

\* active_positions[idx] = {...}
open_position(trade, position_size, cfg) ==
    [units         |-> Div(position_size, trade.entry_price),
     position_size |-> position_size,
     entry_price   |-> trade.entry_price,
     position_type |-> trade.position_type,
     entry_costs   |-> cost_breakdown(position_size, cfg)]

trade_pnl(pos, trade) ==
    IF pos.position_type = "long"
    THEN Mul(Sub(trade.exit_price, pos.entry_price), pos.units)
    ELSE Mul(Sub(pos.entry_price, trade.exit_price), pos.units)

\* Faulty variant of trade_raw_performance: the long formula for every
\* position type.
trade_raw_performance_long_only(pos, trade) ==
    Div(Sub(trade.exit_price, pos.entry_price), pos.entry_price)

trade_raw_performance(pos, trade) ==
    IF pos.position_type = "long"
    THEN Div(Sub(trade.exit_price, pos.entry_price), pos.entry_price)
    ELSE Div(Sub(pos.entry_price, trade.exit_price), pos.entry_price)

\* Faulty variant of trade_cost_impact: relative to the money the position
\* committed.
cost_impact_of_committed(total_costs, pos, cfg) ==
    Div(total_costs, pos.position_size)

\* cost_impact = total_costs / (initial_capital * position_size_percent)
trade_cost_impact(total_costs, pos, cfg) ==
    Div(total_costs, Mul(cfg.initial_capital, cfg.position_size_percent))

put(f, k, v) == [i \in DOMAIN f \cup {k} |-> IF i = k THEN v ELSE f[i]]
\* Faulty variant of del: the closed position stays in the map.
del_nothing(f, k) == f

del(f, k) == [i \in DOMAIN f \ {k} |-> f[i]]

\* Faulty variant of day_row: total_capital leaves out the invested capital.
day_row_available_only(d, available, invested, day, positions) ==
    [date             |-> d,
     available_capital |-> available,
     invested_capital  |-> invested,
     total_capital     |-> available,
     daily_pnl         |-> day.pnl,
     daily_costs       |-> Add(day.entry_costs, day.exit_costs),
     active_positions  |-> Cardinality(DOMAIN positions)]

\* One day row as the loop writes it (lines 131-136).
day_row(d, available, invested, day, positions) ==
    [date             |-> d,
     available_capital |-> available,
     invested_capital  |-> invested,
     total_capital     |-> Add(available, invested),
     daily_pnl         |-> day.pnl,
     daily_costs       |-> Add(day.entry_costs, day.exit_costs),
     active_positions  |-> Cardinality(DOMAIN positions)]

\* Faulty variant of cumsum: nothing is carried from one day to the next.
cumsum_no_carry(s) == s

\* Series.cumsum(): the running sums, accumulated left to right.
RECURSIVE cumsum(_)
cumsum(s) ==
    IF s = <<>> THEN <<>>
    ELSE LET front == cumsum(SubSeq(s, 1, Len(s) - 1))
         IN  Append(front,
                    IF front = <<>> THEN s[1]
                    ELSE Add(front[Len(front)], s[Len(s)]))

\* Faulty variant of derive_columns: net_performance leaves the costs out.
derive_columns_gross(rows, cfg) ==
    LET cumulative_pnl   == cumsum([i \in 1..Len(rows) |-> rows[i].daily_pnl])
        cumulative_costs == cumsum([i \in 1..Len(rows) |-> rows[i].daily_costs])
    IN  [i \in 1..Len(rows) |->
           [date              |-> rows[i].date,
            available_capital |-> rows[i].available_capital,
            invested_capital  |-> rows[i].invested_capital,
            total_capital     |-> rows[i].total_capital,
            daily_pnl         |-> rows[i].daily_pnl,
            daily_costs       |-> rows[i].daily_costs,
            active_positions  |-> rows[i].active_positions,
            cumulative_pnl    |-> cumulative_pnl[i],
            cumulative_costs  |-> cumulative_costs[i],
            net_performance   |-> cumulative_pnl[i],
            performance_pct   |-> Div(cumulative_pnl[i], cfg.initial_capital)]]

\* The derived columns (lines 138-141) added to the day rows.
derive_columns(rows, cfg) ==
    LET cumulative_pnl   == cumsum([i \in 1..Len(rows) |-> rows[i].daily_pnl])
        cumulative_costs == cumsum([i \in 1..Len(rows) |-> rows[i].daily_costs])
    IN  [i \in 1..Len(rows) |->
           [date              |-> rows[i].date,
            available_capital |-> rows[i].available_capital,
            invested_capital  |-> rows[i].invested_capital,
            total_capital     |-> rows[i].total_capital,
            daily_pnl         |-> rows[i].daily_pnl,
            daily_costs       |-> rows[i].daily_costs,
            active_positions  |-> rows[i].active_positions,
            cumulative_pnl    |-> cumulative_pnl[i],
            cumulative_costs  |-> cumulative_costs[i],
            net_performance   |-> Sub(cumulative_pnl[i], cumulative_costs[i]),
            performance_pct   |-> Div(Sub(cumulative_pnl[i], cumulative_costs[i]),
                                      cfg.initial_capital)]]

-----------------------------------------------------------------------------
(* calculations/portfolio.py: the metrics aggregator *)

\* Faulty variant of Positive: the entries that are not negative.
NotNegative(s) == LET pos(x) == Ge(x, Zero) IN SelectSeq(s, pos)

Positive(s) == LET pos(x) == Gt(x, Zero) IN SelectSeq(s, pos)

\* _calculate_metrics over a non-empty series.
_calculate_metrics(series) ==
    [total_trades      |-> Len(series),
     profitable_trades |-> Len(Positive(series)),
     total_performance |-> Sum(series),
     avg_performance   |-> Div(Sum(series), Q(Len(series))),
     max_gain          |-> MaxOf(series),
     max_loss          |-> MinOf(series),
     win_rate          |-> Frac(Len(Positive(series)), Len(series))]

\* TRUE when calculate_performance_metrics raises ZeroDivisionError: the
\* integer division len(...) / len(series) of _calculate_metrics, line 26.
metrics_raise(performances) == Len(performances) = 0

\* entry_breakdown / exit_breakdown; side is "entry" or "exit".
breakdown_totals(costs, side) ==
    LET commission == Sum([i \in 1..Len(costs) |-> costs[i][side].commission])
        variable   == Sum([i \in 1..Len(costs) |-> costs[i][side].variable])
        spread     == Sum([i \in 1..Len(costs) |-> costs[i][side].spread])
    IN  [commission |-> commission, variable |-> variable, spread |-> spread,
         total |-> Add(Add(commission, variable), spread)]

\* Faulty variant of executed_trades: the rows of the table, skipped or
\* not.
loaded_trades(performances) == Len(df)

\* executed_trades = len(trade_performances)
executed_trades(performances) == Len(performances)

\* The report, for at least one trade performance record.
calculate_performance_metrics(rows, performances, costs, cfg) ==
    LET last        == rows[Len(rows)]
        total_costs == last.cumulative_costs
        capital     == [i \in 1..Len(rows) |-> rows[i].total_capital]
    IN  [total_trades      |-> executed_trades(performances),
         profitable_days   |->
            Len(Positive([i \in 1..Len(rows) |-> rows[i].daily_pnl])),
         total_days        |-> Len(rows),
         max_invested      |->
            MaxOf([i \in 1..Len(rows) |-> rows[i].invested_capital]),
         total_costs       |-> total_costs,
         final_performance |-> last.performance_pct,
         max_drawdown      |-> Div(Sub(MinOf(capital), cfg.initial_capital),
                                   cfg.initial_capital),
         raw_performance   |->
            _calculate_metrics([i \in 1..Len(performances) |->
                                   performances[i].raw_performance]),
         net_performance   |->
            _calculate_metrics([i \in 1..Len(performances) |->
                                   performances[i].net_performance]),
         costs             |->
            [total_costs        |-> total_costs,
             avg_cost_per_trade |->
                Div(total_costs, Q(executed_trades(performances))),
             breakdown          |->
                [entry |-> breakdown_totals(costs, "entry"),
                 exit  |-> breakdown_totals(costs, "exit")]],
         portfolio         |->
            [initial_capital   |-> cfg.initial_capital,
             final_capital     |-> last.total_capital,
             max_capital       |-> MaxOf(capital),
             min_capital       |-> MinOf(capital),
             current_invested  |-> last.invested_capital,
             current_available |-> last.available_capital]]

-----------------------------------------------------------------------------
(* Inputs *)

Days == 1..MaxDay
Symbols == {"AAA", "BBB"}

\* <<position_type, entry_price, exit_price>> of the rows of a valid table.
PriceMoves == {<<"long", Q(100), Q(110)>>, <<"short", Q(100), Q(110)>>}

\* Rows that break the data model: a non-positive entry or exit price.  An
\* entry_price of 0 is left out: NumPy's division gives units = inf there,
\* which the rationals do not have.
BadPriceMoves == {<<"long", Q(-100), Q(110)>>, <<"long", Q(100), Zero>>}

Row(e, x, m, s, p, w) ==
    [entry_date |-> e, exit_date |-> x, position_type |-> m[1],
     entry_price |-> m[2], exit_price |-> m[3],
     symbol |-> s, paired_symbol |-> p, window |-> w]

valid_row(r) ==
    /\ r.entry_date <= r.exit_date
    /\ Gt(r.entry_price, Zero)
    /\ Gt(r.exit_price, Zero)

Tables(rows) == UNION {[1..n -> rows] : n \in 0..MaxTrades}

\* Tables of one symbol pair and window that keep the data model: entry_date
\* <= exit_date, prices positive.
ValidRows ==
    {Row(d[1], d[2], m, "AAA", "BBB", 1) :
        d \in {dd \in Days \X Days : dd[1] <= dd[2]}, m \in PriceMoves}

\* Rows as load_strategy may return them: nothing checks dates or prices.
AnyRows ==
    {Row(d[1], d[2], m, "AAA", "BBB", 1) :
        d \in Days \X Days, m \in PriceMoves \cup BadPriceMoves}

Params(ic, psp, fc, vf, bas, rfr) ==
    [initial_capital |-> ic, position_size_percent |-> psp,
     fixed_commission |-> fc, variable_fee |-> vf, bid_ask_spread |-> bas,
     risk_free_rate |-> rfr]

\* Query parameters of the runs: no fees, a commission above what is left
\* after sizing, a commission equal to the capital, 60% sizing, all fees.
RunParams ==
    {Params(Q(1000), Frac(1, 2), Zero, Zero, Zero, None),
     Params(Q(1000), Frac(1, 2), Q(600), Zero, Zero, None),
     Params(Q(1000), Frac(1, 2), Q(1000), Zero, Zero, None),
     Params(Q(1000), Frac(3, 5), Zero, Zero, Zero, None),
     Params(Q(1000), Frac(1, 2), Q(10), Frac(1, 10), Frac(1, 10), Zero),
     Params(Q(1000), Q(1), None, None, None, None)}

\* Values a query parameter of the configuration may take: absent, below,
\* on and inside the edge of its domain.
CapitalValues == {None, Q(-1000), Zero, Q(1000)}
PercentValues == {None, Q(-1), Zero, Frac(1, 2), Q(1), Frac(3, 2)}
CommissionValues == {None, Q(-1), Zero, Q(10)}
RateValues == {None, Frac(-1, 10), Zero, Frac(1, 10)}

AnyParams ==
    {Params(ic, psp, fc, vf, bas, rfr) :
        ic \in CapitalValues, psp \in PercentValues, fc \in CommissionValues,
        vf \in RateValues, bas \in RateValues, rfr \in RateValues}

\* Rows of two symbols and two windows, each long 100 -> 110 and held to
\* the last day.
QueryRows ==
    {Row(e, MaxDay, <<"long", Q(100), Q(110)>>, sp[1], sp[2], w) :
        e \in Days, sp \in {<<"AAA", "BBB">>, <<"BBB", "AAA">>}, w \in {1, 2}}

Request(endpoint, symbol, symbol2, has_window, window, params) ==
    [endpoint |-> endpoint, symbol |-> symbol, symbol2 |-> symbol2,
     has_window |-> has_window, window |-> window, params |-> params]

-----------------------------------------------------------------------------
(* main.py: the performance endpoints, step by step *)

NoConfig == [k \in ConfigKeys |-> None]

InitServing(requests, tables, others) ==
    /\ request \in requests
    /\ df \in tables
    /\ pc = "config"
    /\ config = NoConfig
    /\ trades = <<>>
    /\ date_range = <<0, 0>>
    /\ date = 0
    /\ new_trades = <<>>
    /\ closed_trades = <<>>
    /\ available_capital = Zero
    /\ invested_capital = Zero
    /\ active_positions = <<>>
    /\ skipped_trades = <<>>
    /\ trade_performances = <<>>
    /\ trade_costs = <<>>
    /\ daily = NoDaily
    /\ ts_data = <<>>
    /\ report = <<>>
    /\ performance = "none"
    /\ response = "none"
    /\ shared_config = trading_config
    /\ earlier = <<>>
    /\ other \in others
    /\ jobs = <<>>
    /\ tasks = <<>>
    /\ status_response = <<>>

\* One request, served alone.
InitWith(requests, tables) == InitServing(requests, tables, {<<>>})

\* get_trades_performance over the tables that keep the data model.
Init ==
    InitWith({Request("trades", "AAA", "BBB", FALSE, 1, p) : p \in RunParams},
             Tables(ValidRows))

\* get_trades_performance over tables nothing has validated.
InitAnyRows ==
    InitWith({Request("trades", "AAA", "BBB", FALSE, 1, p) :
                 p \in {Params(Q(1000), Frac(1, 2), Zero, Zero, Zero, None),
                        Params(Q(1000), Frac(1, 2), Q(600), Zero, Zero, None)}},
             Tables(AnyRows))

engine_vars == <<trades, date_range, date, new_trades, closed_trades,
                 available_capital, invested_capital, active_positions,
                 skipped_trades, trade_performances, trade_costs, daily,
                 ts_data>>

\* Faulty variant of GetTradingConfig: the supplied values are merged
\* into the module-level dict (trading_config.update(custom_config)).
GetTradingConfig_update_shared ==
    /\ pc = "config"
    /\ IF validate_trading_params(request.params)
       THEN /\ pc' = "done"
            /\ response' = "400"
            /\ UNCHANGED <<config, shared_config>>
       ELSE /\ pc' = "query"
            /\ config' = get_trading_config(request.params)
            /\ shared_config' = get_trading_config(request.params)
            /\ UNCHANGED response
    /\ UNCHANGED <<request, df, report, performance>>
    /\ UNCHANGED engine_vars
    /\ UNCHANGED <<earlier, other>>
    /\ UNCHANGED runner_vars

\* config = get_trading_config(...): HTTP 400 or the merged configuration.
GetTradingConfig ==
    /\ pc = "config"
    /\ IF validate_trading_params(request.params)
       THEN /\ pc' = "done"
            /\ response' = "400"
            /\ UNCHANGED config
       ELSE /\ pc' = "query"
            /\ config' = get_trading_config(request.params)
            /\ UNCHANGED response
    /\ UNCHANGED <<request, df, report, performance>>
    /\ UNCHANGED engine_vars
    /\ UNCHANGED process_vars
    /\ UNCHANGED runner_vars

\* get_symbol_performance / get_pair_performance up to the empty check (the
\* endpoint answers 404 to an empty report); get_trades_performance passes
\* the whole table on.
Query ==
    /\ pc = "query"
    /\ IF returns_empty(df, request)
       THEN /\ pc' = "done"
            /\ performance' = "empty"
            /\ response' = "404"
            /\ UNCHANGED trades
       ELSE /\ pc' = "simulate"
            /\ trades' = selected(df, request)
            /\ UNCHANGED <<performance, response>>
    /\ UNCHANGED <<request, df, config, report>>
    /\ UNCHANGED <<date_range, date, new_trades, closed_trades,
                   available_capital, invested_capital, active_positions,
                   skipped_trades, trade_performances, trade_costs, daily,
                   ts_data>>
    /\ UNCHANGED process_vars
    /\ UNCHANGED runner_vars

\* calculate_trade_performance_timeseries, lines 29-47: sort, date range,
\* fresh state, the first day's entries and exits.  pd.date_range raises
\* ValueError for the NaT bounds of an empty table; an empty range (last
\* exit before first entry) leaves the loop body unexecuted.
StartSimulation ==
    /\ pc = "simulate"
    /\ IF trades = <<>>
       THEN /\ pc' = "done"
            /\ performance' = "ValueError"
            /\ response' = "500"
            /\ UNCHANGED engine_vars
       ELSE LET sorted == sort_values(df, trades)
                first  == min_entry_date(df, sorted)
                last   == max_exit_date(df, sorted)
            IN  /\ trades' = sorted
                /\ date_range' = <<first, last>>
                /\ date' = first
                /\ available_capital' = config.initial_capital
                /\ invested_capital' = Zero
                /\ active_positions' = <<>>
                /\ skipped_trades' = <<>>
                /\ trade_performances' = <<>>
                /\ trade_costs' = <<>>
                /\ daily' = NoDaily
                /\ ts_data' = <<>>
                /\ IF first <= last
                   THEN /\ pc' = "loop"
                        /\ new_trades' = entries_on(df, sorted, first)
                        /\ closed_trades' = exits_on(df, sorted, first)
                   ELSE /\ pc' = "derive"
                        /\ UNCHANGED <<new_trades, closed_trades>>
                /\ UNCHANGED <<performance, response>>
    /\ UNCHANGED <<request, df, config, report>>
    /\ UNCHANGED process_vars
    /\ UNCHANGED runner_vars

\* Faulty variant of EnterTrade: the branch for entry costs the capital
\* cannot bear records the skip and falls through to the commit.
EnterTrade_no_continue ==
    /\ pc = "loop"
    /\ new_trades # <<>>
    /\ LET idx           == Head(new_trades)
           trade         == df[idx]
           position_size == candidate_position_size(available_capital, config)
           entry_costs   ==
               calculate_trading_costs(position_size, Zero, config)[1]
       IN  IF Le(position_size, Zero)
           THEN /\ skipped_trades' = Append(skipped_trades, idx)
                /\ UNCHANGED <<available_capital, invested_capital, daily,
                               active_positions>>
           ELSE /\ skipped_trades' =
                      IF Ge(entry_costs, available_capital)
                      THEN Append(skipped_trades, idx)
                      ELSE skipped_trades
                /\ available_capital' =
                      Sub(available_capital, Add(position_size, entry_costs))
                /\ invested_capital' = Add(invested_capital, position_size)
                /\ daily' = [daily EXCEPT
                               !.entry_costs = Add(@, entry_costs)]
                /\ active_positions' =
                      put(active_positions, idx,
                          open_position(trade, position_size, config))
    /\ new_trades' = Tail(new_trades)
    /\ UNCHANGED <<pc, request, df, config, report, performance, response,
                   trades, date_range, date, closed_trades,
                   trade_performances, trade_costs, ts_data>>
    /\ UNCHANGED process_vars
    /\ UNCHANGED runner_vars

\* One iteration of `for idx, trade in new_trades.iterrows()`, lines 53-80.
EnterTrade ==
    /\ pc = "loop"
    /\ new_trades # <<>>
    /\ LET idx           == Head(new_trades)
           trade         == df[idx]
           position_size == candidate_position_size(available_capital, config)
           entry_costs   ==
               calculate_trading_costs(position_size, Zero, config)[1]
       IN  IF entry_skipped(available_capital, config)
           THEN /\ skipped_trades' = Append(skipped_trades, idx)
                /\ UNCHANGED <<available_capital, invested_capital, daily,
                               active_positions>>
           ELSE /\ available_capital' =
                      Sub(available_capital, Add(position_size, entry_costs))
                /\ invested_capital' = Add(invested_capital, position_size)
                /\ daily' = [daily EXCEPT
                               !.entry_costs = Add(@, entry_costs)]
                /\ active_positions' =
                      put(active_positions, idx,
                          open_position(trade, position_size, config))
                /\ UNCHANGED skipped_trades
    /\ new_trades' = Tail(new_trades)
    /\ UNCHANGED <<pc, request, df, config, report, performance, response,
                   trades, date_range, date, closed_trades,
                   trade_performances, trade_costs, ts_data>>
    /\ UNCHANGED process_vars
    /\ UNCHANGED runner_vars

\* One iteration of `for idx, trade in closed_trades.iterrows()`, lines 82-127.
ExitTrade ==
    /\ pc = "loop"
    /\ new_trades = <<>>
    /\ closed_trades # <<>>
    /\ LET idx   == Head(closed_trades)
           trade == df[idx]
       IN  IF idx \notin DOMAIN active_positions
           THEN UNCHANGED <<available_capital, invested_capital, daily,
                            active_positions, trade_performances, trade_costs>>
           ELSE LET pos         == active_positions[idx]
                    exit_value  == Mul(pos.units, trade.exit_price)
                    exit_costs  ==
                        calculate_trading_costs(pos.position_size, exit_value,
                                                config)[2]
                    pnl         == trade_pnl(pos, trade)
                    raw_performance == trade_raw_performance(pos, trade)
                    exit_cost_breakdown == cost_breakdown(exit_value, config)
                    total_costs ==
                        Add(sum_values(pos.entry_costs),
                            sum_values(exit_cost_breakdown))
                    cost_impact == trade_cost_impact(total_costs, pos, config)
                IN  /\ trade_performances' =
                          Append(trade_performances,
                                 [trade_id        |-> idx,
                                  raw_performance |-> raw_performance,
                                  cost_impact     |-> cost_impact,
                                  net_performance |->
                                      Sub(raw_performance, cost_impact)])
                    /\ trade_costs' =
                          Append(trade_costs,
                                 [trade_id |-> idx,
                                  entry    |-> pos.entry_costs,
                                  exit     |-> exit_cost_breakdown,
                                  total    |-> total_costs])
                    /\ invested_capital' =
                          Sub(invested_capital, pos.position_size)
                    /\ available_capital' =
                          Add(available_capital,
                              Sub(Add(pos.position_size, pnl), exit_costs))
                    /\ daily' = [daily EXCEPT
                                   !.exit_costs = Add(@, exit_costs),
                                   !.pnl = Add(@, pnl)]
                    /\ active_positions' = del(active_positions, idx)
    /\ closed_trades' = Tail(closed_trades)
    /\ UNCHANGED <<pc, request, df, config, report, performance, response,
                   trades, date_range, date, new_trades, skipped_trades,
                   ts_data>>
    /\ UNCHANGED process_vars
    /\ UNCHANGED runner_vars

\* The end of a day's iteration, lines 129-136, and the step to the next day.
RecordDay ==
    /\ pc = "loop"
    /\ new_trades = <<>>
    /\ closed_trades = <<>>
    /\ ts_data' = Append(ts_data,
                         day_row(date, available_capital, invested_capital,
                                 daily, active_positions))
    /\ IF date < date_range[2]
       THEN /\ date' = date + 1
            /\ new_trades' = entries_on(df, trades, date + 1)
            /\ closed_trades' = exits_on(df, trades, date + 1)
            /\ daily' = NoDaily
            /\ UNCHANGED pc
       ELSE /\ pc' = "derive"
            /\ UNCHANGED <<date, new_trades, closed_trades, daily>>
    /\ UNCHANGED <<request, df, config, report, performance, response,
                   trades, date_range, available_capital, invested_capital,
                   active_positions, skipped_trades, trade_performances,
                   trade_costs>>
    /\ UNCHANGED process_vars
    /\ UNCHANGED runner_vars

\* Lines 138-143: the derived columns and the return.  With no day row the
\* frame has no 'daily_pnl' column and line 138 raises KeyError.
Derive ==
    /\ pc = "derive"
    /\ IF ts_data = <<>>
       THEN /\ pc' = "done"
            /\ performance' = "KeyError"
            /\ response' = "500"
            /\ UNCHANGED ts_data
       ELSE /\ pc' = "metrics"
            /\ ts_data' = derive_columns(ts_data, config)
            /\ UNCHANGED <<performance, response>>
    /\ UNCHANGED <<request, df, config, report, trades, date_range, date,
                   new_trades, closed_trades, available_capital,
                   invested_capital, active_positions, skipped_trades,
                   trade_performances, trade_costs, daily>>
    /\ UNCHANGED process_vars
    /\ UNCHANGED runner_vars

\* calculate_performance_metrics and the endpoint's answer.
Metrics ==
    /\ pc = "metrics"
    /\ pc' = "done"
    /\ IF metrics_raise(trade_performances)
       THEN /\ performance' = "ZeroDivisionError"
            /\ response' = "500"
            /\ UNCHANGED report
       ELSE /\ performance' = "report"
            /\ response' = "200"
            /\ report' = <<calculate_performance_metrics(
                              ts_data, trade_performances, trade_costs,
                              config)>>
    /\ UNCHANGED <<request, df, config>>
    /\ UNCHANGED engine_vars
    /\ UNCHANGED process_vars
    /\ UNCHANGED runner_vars

\* The symbol and pair endpoints, for symbols and windows in and out of the
\* table.
InitQuery ==
    InitWith({Request(ep, sym, "BBB", hw[1], hw[2],
                      Params(Q(1000), Frac(1, 2), Zero, Zero, Zero, None)) :
                 ep \in {"symbol", "pair"}, sym \in {"AAA", "CCC"},
                 hw \in {<<FALSE, 1>>, <<TRUE, 1>>, <<TRUE, 2>>}},
             Tables(QueryRows))

\* get_trades_performance of one trade under every combination of
\* configuration parameters.
InitConfig ==
    InitWith({Request("trades", "AAA", "BBB", FALSE, 1, p) : p \in AnyParams},
             {<<Row(1, 2, <<"long", Q(100), Q(110)>>, "AAA", "BBB", 1)>>})

\* Price moves up, down and flat, for both position types.
AllPriceMoves ==
    PriceMoves \cup {<<"long", Q(100), Q(90)>>, <<"short", Q(100), Q(90)>>,
                     <<"long", Q(100), Q(100)>>}

\* Valid rows held for at most one day.
ShortHeldRows ==
    {Row(d[1], d[2], m, "AAA", "BBB", 1) :
        d \in {dd \in Days \X Days : dd[2] \in {dd[1], dd[1] + 1}},
        m \in AllPriceMoves}

\* get_trades_performance over every price move, with all fees.
InitMoves ==
    InitWith({Request("trades", "AAA", "BBB", FALSE, 1,
                      Params(Q(1000), Frac(1, 2), Q(10), Frac(1, 10),
                             Frac(1, 10), Zero))},
             Tables(ShortHeldRows))

Next ==
    \/ GetTradingConfig
    \/ Query
    \/ StartSimulation
    \/ EnterTrade
    \/ ExitTrade
    \/ RecordDay
    \/ Derive
    \/ Metrics

Spec == Init /\ [][Next]_vars

SpecAnyRows == InitAnyRows /\ [][Next]_vars

SpecQuery == InitQuery /\ [][Next]_vars

SpecConfig == InitConfig /\ [][Next]_vars

SpecMoves == InitMoves /\ [][Next]_vars

-----------------------------------------------------------------------------
(* The serving process: further requests and concurrent requests *)

\* The local variables of the request being served.
frame ==
    [pc |-> pc, request |-> request, df |-> df, config |-> config,
     trades |-> trades, date_range |-> date_range, date |-> date,
     new_trades |-> new_trades, closed_trades |-> closed_trades,
     available_capital |-> available_capital,
     invested_capital |-> invested_capital,
     active_positions |-> active_positions,
     skipped_trades |-> skipped_trades,
     trade_performances |-> trade_performances,
     trade_costs |-> trade_costs, daily |-> daily, ts_data |-> ts_data,
     report |-> report, performance |-> performance, response |-> response]

\* The locals of a request that has not taken a step.
fresh_frame(req, table) ==
    [pc |-> "config", request |-> req, df |-> table, config |-> NoConfig,
     trades |-> <<>>, date_range |-> <<0, 0>>, date |-> 0,
     new_trades |-> <<>>, closed_trades |-> <<>>,
     available_capital |-> Zero, invested_capital |-> Zero,
     active_positions |-> <<>>, skipped_trades |-> <<>>,
     trade_performances |-> <<>>, trade_costs |-> <<>>, daily |-> NoDaily,
     ts_data |-> <<>>, report |-> <<>>, performance |-> "none",
     response |-> "none"]

\* What a request was given and what it answered: the HTTP status, the
\* report, and the engine's return value (line 143) when it returned.
outputs_of(f) ==
    [request     |-> f.request,
     df          |-> f.df,
     response    |-> f.response,
     performance |-> f.performance,
     report      |-> IF f.performance = "report" THEN f.report ELSE <<>>,
     returned    |-> IF f.performance \in {"report", "ZeroDivisionError"}
                     THEN <<f.ts_data, f.trade_performances, f.trade_costs>>
                     ELSE <<>>]

\* Faulty variant of local_value: the value is module-level, so a run
\* that resumes finds what the other run left.
shared_value(saved, current) == current

\* available_capital, invested_capital and active_positions are locals of
\* the call (lines 38-40): a run that resumes finds the value it left.
local_value(saved, current) == saved

\* Two trades at most, long 100 -> 110, entered on day 1 and held for no
\* day or one.
ProcessRows ==
    {Row(1, x, <<"long", Q(100), Q(110)>>, "AAA", "BBB", 1) : x \in {1, 2}}

\* No fees; a commission of 600; the commission left to the default.
ProcessRequests ==
    {Request("trades", "AAA", "BBB", FALSE, 1, p) :
        p \in {Params(Q(1000), Frac(1, 2), Zero, Zero, Zero, None),
               Params(Q(1000), Frac(1, 2), Q(600), Zero, Zero, None),
               Params(Q(1000), Frac(1, 2), None, Zero, Zero, None)}}

\* A commission of 300, which a second position cannot bear; the
\* commission left to the default.
ConcurrentRequests ==
    {Request("trades", "AAA", "BBB", FALSE, 1, p) :
        p \in {Params(Q(1000), Frac(1, 2), Q(300), Zero, Zero, None),
               Params(Q(1000), Frac(1, 2), None, Zero, Zero, None)}}

\* The process serves a further request once the last one is answered: a
\* first one, any second one, then the first one again.  The handler's
\* locals are bound anew only where its code assigns them.
NextRequest ==
    /\ pc = "done"
    /\ other = <<>>
    /\ Len(earlier) < 2
    /\ earlier' = Append(earlier, outputs_of(frame))
    /\ IF earlier = <<>>
       THEN /\ request' \in ProcessRequests
            /\ df' \in Tables(ProcessRows)
       ELSE /\ request' = earlier[1].request
            /\ df' = earlier[1].df
    /\ pc' = "config"
    /\ report' = <<>>
    /\ performance' = "none"
    /\ response' = "none"
    /\ UNCHANGED <<config, shared_config, other>>
    /\ UNCHANGED engine_vars
    /\ UNCHANGED runner_vars

\* The run being served is suspended between two of its steps and the
\* other run resumes.
Switch ==
    /\ other # <<>>
    /\ other' = <<frame>>
    /\ pc' = other[1].pc
    /\ request' = other[1].request
    /\ df' = other[1].df
    /\ config' = other[1].config
    /\ trades' = other[1].trades
    /\ date_range' = other[1].date_range
    /\ date' = other[1].date
    /\ new_trades' = other[1].new_trades
    /\ closed_trades' = other[1].closed_trades
    /\ available_capital' =
          local_value(other[1].available_capital, available_capital)
    /\ invested_capital' =
          local_value(other[1].invested_capital, invested_capital)
    /\ active_positions' =
          local_value(other[1].active_positions, active_positions)
    /\ skipped_trades' = other[1].skipped_trades
    /\ trade_performances' = other[1].trade_performances
    /\ trade_costs' = other[1].trade_costs
    /\ daily' = other[1].daily
    /\ ts_data' = other[1].ts_data
    /\ report' = other[1].report
    /\ performance' = other[1].performance
    /\ response' = other[1].response
    /\ UNCHANGED <<shared_config, earlier>>
    /\ UNCHANGED runner_vars

\* Both concurrent requests are answered; the one at hand is served once
\* more, alone.
RunAlone ==
    /\ pc = "done"
    /\ other # <<>>
    /\ other[1].pc = "done"
    /\ earlier' = <<outputs_of(frame), outputs_of(other[1])>>
    /\ other' = <<>>
    /\ pc' = "config"
    /\ report' = <<>>
    /\ performance' = "none"
    /\ response' = "none"
    /\ UNCHANGED <<request, df, config, shared_config>>
    /\ UNCHANGED runner_vars
    /\ UNCHANGED engine_vars

InitRepeat == InitWith(ProcessRequests, Tables(ProcessRows))

InitConcurrent ==
    InitServing(ConcurrentRequests, Tables(ProcessRows),
                {<<fresh_frame(r, t)>> :
                    r \in ConcurrentRequests, t \in Tables(ProcessRows)})

NextRepeat == Next \/ NextRequest

NextConcurrent == Next \/ Switch \/ RunAlone

SpecRepeat == InitRepeat /\ [][NextRepeat]_vars

SpecConcurrent == InitConcurrent /\ [][NextConcurrent]_vars

-----------------------------------------------------------------------------
(* notebook_runner/app.py: the job table and the background tasks *)

\* Job ids the service hands out (uuid4 values, taken never to repeat).
MaxJobs == 2

JobIds == 1 .. MaxJobs

\* progress is kept in hundredths: 0.15 is 15, 1.0 is 100.
job_entry(status, progress) == [status |-> status, progress |-> progress]

\* jobs[job_id]["status"] = value, one item assignment.
set_status(job_id, value) == [jobs EXCEPT ![job_id].status = value]

\* jobs[job_id]["progress"] = value, one item assignment.
set_progress(job_id, value) == [jobs EXCEPT ![job_id].progress = value]

\* POST /run: a fresh job id, its entry, and the task handed to
\* background_tasks; the task starts after the response is sent.
run_notebook_endpoint ==
    /\ \E job_id \in JobIds \ DOMAIN jobs :
          /\ jobs' = put(jobs, job_id, job_entry("pending", 0))
          /\ tasks' = put(tasks, job_id, "queued")
    /\ UNCHANGED status_response
    /\ UNCHANGED analytics_vars

\* A statement of the try block raises: control reaches the handler, whose
\* first statement (line 279) writes the status.
raise(job_id) ==
    /\ jobs' = set_status(job_id, "failed")
    /\ tasks' = [tasks EXCEPT ![job_id] = "except"]

\* Lines 182-197: the configuration, the MinIO client and the market are
\* looked up; the entry is replaced as a whole, or one of the calls raises.
find_market(job_id) ==
    /\ tasks[job_id] = "queued"
    /\ \/ /\ jobs' = put(jobs, job_id, job_entry("running", 10))
          /\ tasks' = [tasks EXCEPT ![job_id] = "started"]
       \/ raise(job_id)

\* Lines 200-212: the notebook exists, the temporary directory is made.
find_notebook(job_id) ==
    /\ tasks[job_id] = "started"
    /\ \/ /\ jobs' = set_progress(job_id, 15)
          /\ tasks' = [tasks EXCEPT ![job_id] = "downloading"]
       \/ raise(job_id)

\* Lines 215-234: minio_client.fget_object and the parameters.
download_market_data(job_id) ==
    /\ tasks[job_id] = "downloading"
    /\ \/ /\ jobs' = set_progress(job_id, 20)
          /\ tasks' = [tasks EXCEPT ![job_id] = "executing"]
       \/ raise(job_id)

\* Lines 238-246: pm.execute_notebook returns or raises.
execute_notebook(job_id) ==
    /\ tasks[job_id] = "executing"
    /\ \/ /\ jobs' = set_progress(job_id, 70)
          /\ tasks' = [tasks EXCEPT ![job_id] = "uploading"]
       \/ raise(job_id)

\* Lines 250-274: the output file is checked, uploaded and tagged; line 274
\* writes the status.
upload_strategy(job_id) ==
    /\ tasks[job_id] = "uploading"
    /\ \/ /\ jobs' = set_status(job_id, "completed")
          /\ tasks' = [tasks EXCEPT ![job_id] = "completing"]
       \/ raise(job_id)

\* Line 275 (and the message of line 276): the task returns.
complete_job(job_id) ==
    /\ tasks[job_id] = "completing"
    /\ jobs' = set_progress(job_id, 100)
    /\ tasks' = [tasks EXCEPT ![job_id] = "returned"]

\* Line 280 (and the error and message of lines 281-282): the task returns.
fail_job(job_id) ==
    /\ tasks[job_id] = "except"
    /\ jobs' = set_progress(job_id, 0)
    /\ tasks' = [tasks EXCEPT ![job_id] = "returned"]

\* One step of the background task of job_id.  The task is a plain def, so
\* it runs in a worker thread while the event loop serves requests.
run_notebook(job_id) ==
    /\ job_id \in DOMAIN tasks
    /\ \/ find_market(job_id)
       \/ find_notebook(job_id)
       \/ download_market_data(job_id)
       \/ execute_notebook(job_id)
       \/ upload_strategy(job_id)
       \/ complete_job(job_id)
       \/ fail_job(job_id)
    /\ UNCHANGED status_response
    /\ UNCHANGED analytics_vars

\* GET /status/{job_id}: the entry as it stands, or 404.
get_status ==
    /\ \E job_id \in JobIds :
          status_response' = IF job_id \in DOMAIN jobs
                             THEN <<jobs[job_id]>>
                             ELSE <<"404", "Job not found">>
    /\ UNCHANGED <<jobs, tasks>>
    /\ UNCHANGED analytics_vars

RunBackgroundTask == \E job_id \in JobIds : run_notebook(job_id)

\* The analytics service stands idle beside the runner.
InitRunner ==
    InitWith({Request("trades", "AAA", "BBB", FALSE, 1,
                      Params(None, None, None, None, None, None))},
             {<<>>})

NextRunner == run_notebook_endpoint \/ RunBackgroundTask \/ get_status

SpecRunner == InitRunner /\ [][NextRunner]_vars

\* Every started task is scheduled again and again, and every call it makes
\* returns or raises.
FairRunner ==
    SpecRunner /\ \A job_id \in JobIds : WF_vars(run_notebook(job_id))

-----------------------------------------------------------------------------
(* Properties *)

ScenarioA == Params(Q(1000), Frac(1, 2), Zero, Zero, Zero, None)
ScenarioB == Params(Q(1000), Frac(1, 2), Q(600), Zero, Zero, None)
ScenarioC == Params(Q(1000), Frac(3, 5), Zero, Zero, Zero, None)

\* One long trade, entry 100 on day 1, exit 110 on day 2.
OneLongTrade == <<Row(1, 2, <<"long", Q(100), Q(110)>>, "AAA", "BBB", 1)>>

\* The row ids of a list of trade records.
record_ids(records) == {records[i].trade_id : i \in 1..Len(records)}
seq_ids(ids) == {ids[i] : i \in 1..Len(ids)}

\* calculate_trade_performance_timeseries has returned its three results.
Returned == pc = "metrics" \/ (pc = "done" /\ ts_data # <<>>)

\* C1: in Scenario B (capital 1000, 50% sizing, commission 600, one long
\* trade 100 -> 110 over days 1 -> 2) the trade is skipped: no position is
\* ever open, daily_pnl is 0 on every day row and there is no trade
\* performance record.
C1_ScenarioB_Skipped ==
    (request.params = ScenarioB /\ df = OneLongTrade) =>
        /\ active_positions = <<>>
        /\ trade_performances = <<>>
        /\ \A i \in 1..Len(ts_data) : ts_data[i].daily_pnl = Zero

\* C2: the metrics aggregator, given zero trade performance records, hands
\* back a "no trades" report and raises no arithmetic fault.
C2_NoTradesReport ==
    (pc = "done" /\ ts_data # <<>> /\ trade_performances = <<>>) =>
        performance \in {"empty", "report"}

\* C3: once the run has returned, every trade whose entry_date lies in the
\* simulated day range is either skipped or recorded in the trade
\* performance output, not both and not neither.
C3_SkippedXorRecorded ==
    Returned =>
        \A idx \in seq_ids(trades) :
            (date_range[1] <= df[idx].entry_date
                /\ df[idx].entry_date <= date_range[2]) =>
                (idx \in seq_ids(skipped_trades))
                    # (idx \in record_ids(trade_performances))

\* C3 for the tables that keep the data model, where it holds.
C3_ValidRows ==
    (\A i \in 1..Len(df) : valid_row(df[i])) => C3_SkippedXorRecorded

\* The entries still to process on the current day are in table row order.
InRowOrder(ids) ==
    \A p, q \in 1..Len(ids) : p < q => ids[p] < ids[q]

\* The entries still to process are in ascending exit_date order, rows of
\* equal exit_date in table row order.
InExitDateOrder(ids) ==
    \A p, q \in 1..Len(ids) : p < q =>
        \/ df[ids[p]].exit_date < df[ids[q]].exit_date
        \/ df[ids[p]].exit_date = df[ids[q]].exit_date /\ ids[p] < ids[q]

C5_InvalidRowsRejected ==
    /\ \A idx \in 1..Len(df) :
          ~valid_row(df[idx]) =>
              /\ idx \notin DOMAIN active_positions
              /\ idx \notin record_ids(trade_performances)
              /\ idx \notin record_ids(trade_costs)
    /\ (df # <<>> /\ \E idx \in 1..Len(df) : valid_row(df[idx])) =>
          performance \notin {"KeyError", "ValueError"}

\* C6: every day row has total_capital = available_capital +
\* invested_capital.
C6_TotalCapital ==
    \A i \in 1..Len(ts_data) :
        ts_data[i].total_capital =
            Add(ts_data[i].available_capital, ts_data[i].invested_capital)

\* A day row written while a position is open.
C6_Witness ==
    \E i \in 1..Len(ts_data) :
        /\ ts_data[i].invested_capital # Zero
        /\ ts_data[i].available_capital # Zero

\* C7: cumulative_pnl of the first day is its daily_pnl, and of every
\* later day the previous day's cumulative_pnl plus the day's daily_pnl.
C7_CumulativePnl ==
    Returned =>
        /\ ts_data[1].cumulative_pnl = ts_data[1].daily_pnl
        /\ \A d \in 2..Len(ts_data) :
              ts_data[d].cumulative_pnl =
                  Add(ts_data[d - 1].cumulative_pnl, ts_data[d].daily_pnl)

\* Profit and loss on two different days of a returned run.
C7_Witness ==
    /\ Returned
    /\ \E d, e \in 1..Len(ts_data) :
          /\ d < e
          /\ ts_data[d].daily_pnl # Zero
          /\ ts_data[e].daily_pnl # Zero

\* C8: when the symbol/pair/window filter leaves no row, get_symbol_performance
\* and get_pair_performance return the empty report: nothing is raised and
\* the simulation is not invoked.
C8_EmptySelection ==
    (/\ request.endpoint \in {"symbol", "pair"}
     /\ selected(df, request) = <<>>
     /\ pc \notin {"config", "query"}) =>
        /\ pc = "done"
        /\ performance = "empty"
        /\ report = <<>>
        /\ trades = <<>>
        /\ date_range = <<0, 0>>
        /\ ts_data = <<>>

\* A table with rows of the symbol, emptied by the window filter alone.
C8_Witness ==
    /\ pc = "done"
    /\ performance = "empty"
    /\ request.has_window
    /\ \E i \in 1..Len(df) : df[i].symbol = request.symbol

\* The domain of the configuration, field by field; an absent parameter
\* takes its default.
OutOfDomain(params) ==
    \/ params.initial_capital # None /\ Le(params.initial_capital, Zero)
    \/ params.position_size_percent # None
          /\ (Le(params.position_size_percent, Zero)
                \/ Ge(params.position_size_percent, Q(1)))
    \/ \E k \in {"fixed_commission", "variable_fee", "bid_ask_spread",
                  "risk_free_rate"} :
          params[k] # None /\ Lt(params[k], Zero)

\* C9: a request with a configuration field outside its domain is answered
\* with the 400 of get_trading_config before any simulation step runs, and
\* a simulation only ever runs with a configuration inside the domain.
C9_ConfigRejected ==
    /\ OutOfDomain(request.params) =>
          /\ pc \in {"config", "done"}
          /\ pc = "done" => response = "400" /\ performance = "none"
          /\ config = NoConfig
          /\ date_range = <<0, 0>>
          /\ ts_data = <<>>
    /\ pc \notin {"config", "done"} => ~OutOfDomain(config)

\* A request rejected for position_size_percent = 1 alone.
C9_Witness ==
    /\ pc = "done"
    /\ response = "400"
    /\ request.params =
          Params(Q(1000), Q(1), Zero, Zero, Zero, Zero)

\* C10: in Scenario C (capital 1000, 60% sizing, no fees) two trades
\* entering on the same day are sized 600 and then 240, the second against
\* the 400 left by the first.
C10_SequentialSizing ==
    (/\ request.params = ScenarioC
     /\ pc = "loop"
     /\ Len(trades) = 2
     /\ df[1].entry_date = df[2].entry_date
     /\ DOMAIN active_positions = {1, 2}) =>
        /\ active_positions[trades[1]].position_size = Q(600)
        /\ active_positions[trades[2]].position_size = Q(240)

\* Both trades of Scenario C are open.
C10_Witness ==
    /\ request.params = ScenarioC
    /\ pc = "loop"
    /\ Len(trades) = 2
    /\ df[1].entry_date = df[2].entry_date
    /\ DOMAIN active_positions = {1, 2}
    /\ available_capital = Q(160)

\* C11: in Scenario A (capital 1000, 50% sizing, no fees, one long trade
\* 100 -> 110 over days 1 -> 2) the position is 500 in 5 units, the exit
\* books a pnl of 50 and leaves available_capital = 1050 and
\* invested_capital = 0, and the trade's net_performance equals its
\* raw_performance, 0.10.
C11_ScenarioA ==
    (request.params = ScenarioA /\ df = OneLongTrade) =>
        /\ 1 \in DOMAIN active_positions =>
              /\ active_positions[1].position_size = Q(500)
              /\ active_positions[1].units = Q(5)
              /\ available_capital = Q(500)
              /\ invested_capital = Q(500)
        /\ trade_performances # <<>> =>
              /\ available_capital = Q(1050)
              /\ invested_capital = Zero
              /\ Len(trade_performances) = 1
              /\ trade_performances[1].raw_performance = Frac(1, 10)
              /\ trade_performances[1].net_performance = Frac(1, 10)
              /\ pc = "loop" => daily.pnl = Q(50)
              /\ Len(ts_data) = 2 => ts_data[2].daily_pnl = Q(50)
        /\ (pc = "done" /\ ts_data # <<>>) => trade_performances # <<>>

\* Scenario A has run to its report.
C11_Witness ==
    /\ request.params = ScenarioA
    /\ df = OneLongTrade
    /\ performance = "report"
    /\ available_capital = Q(1050)
    /\ trade_performances[1].net_performance = Frac(1, 10)

Sign(q) == IF Gt(q, Zero) THEN 1 ELSE IF Lt(q, Zero) THEN -1 ELSE 0

\* The exit loop has just closed a trade: its record is the last one.
TradeCloses == Len(trade_performances') = Len(trade_performances) + 1

\* C12: the raw_performance of a closed trade is (exit - entry) / entry for
\* a long and (entry - exit) / entry for a short position, it is positive
\* exactly when the price moved in the position's direction, and the pnl
\* the exit books has the sign of raw_performance.
C12_RawPerformanceSigned ==
    [][TradeCloses =>
          LET rec   == trade_performances'[Len(trade_performances')]
              trade == df[rec.trade_id]
              move  == Sub(trade.exit_price, trade.entry_price)
              pnl   == Sub(daily'.pnl, daily.pnl)
          IN  /\ rec.raw_performance =
                    IF trade.position_type = "long"
                    THEN Div(move, trade.entry_price)
                    ELSE Div(Neg(move), trade.entry_price)
              /\ Gt(rec.raw_performance, Zero) <=>
                    IF trade.position_type = "long"
                    THEN Gt(trade.exit_price, trade.entry_price)
                    ELSE Lt(trade.exit_price, trade.entry_price)
              /\ Sign(pnl) = Sign(rec.raw_performance)]_vars

\* A short position 100 -> 90 has closed with raw_performance 0.10 and a
\* positive pnl.
C12_Witness ==
    /\ pc = "loop"
    /\ trade_performances # <<>>
    /\ LET rec == trade_performances[Len(trade_performances)]
       IN  /\ df[rec.trade_id].position_type = "short"
           /\ df[rec.trade_id].exit_date = date
           /\ rec.raw_performance = Frac(1, 10)
    /\ Gt(daily.pnl, Zero)

\* The entry loop has just skipped the trade at the head of new_trades.
TradeSkipped == Len(skipped_trades') = Len(skipped_trades) + 1

\* The exit loop has just passed over a trade that was skipped at entry.
SkippedTradeExits ==
    /\ pc = "loop"
    /\ new_trades = <<>>
    /\ closed_trades # <<>>
    /\ closed_trades' = Tail(closed_trades)
    /\ Head(closed_trades) \in seq_ids(skipped_trades)

\* C13: a skipped trade leaves available_capital, invested_capital and the
\* open-position map as they were, at its entry step and at its exit step,
\* and it never has a trade performance record or a trade cost record.
C13_SkippedNoEffect ==
    [][/\ TradeSkipped =>
             UNCHANGED <<available_capital, invested_capital,
                         active_positions>>
       /\ SkippedTradeExits =>
             UNCHANGED <<available_capital, invested_capital,
                         active_positions, trade_performances, trade_costs>>
       /\ seq_ids(skipped_trades') \cap
             (record_ids(trade_performances') \cup record_ids(trade_costs'))
          = {}]_vars

\* A run has reported on a table with a skipped trade whose exit day has
\* passed, next to a trade that was recorded.
C13_Witness ==
    /\ performance = "report"
    /\ skipped_trades # <<>>
    /\ trade_performances # <<>>
    /\ \A i \in seq_ids(skipped_trades) : df[i].exit_date <= date

\* The trades of the run that enter and exit on day d.
same_day_trades(d) ==
    {i \in seq_ids(trades) :
        df[i].entry_date = d /\ df[i].exit_date = d}

\* The trades that are open at the end of day d: entered on or before d,
\* not skipped, exiting later.
held_over(d) ==
    {i \in seq_ids(trades) :
        /\ df[i].entry_date <= d
        /\ d < df[i].exit_date
        /\ i \notin seq_ids(skipped_trades)}

records_of(i) ==
    {k \in 1..Len(trade_performances) : trade_performances[k].trade_id = i}

\* C15: a trade whose entry_date equals its exit_date is opened by the
\* day's entry step and closed by the same day's exit step: once the day's
\* row is written the trade has exactly one performance record unless it
\* was skipped, it is not an open position, and the row counts only the
\* positions held over the day in active_positions and invested_capital.
C15_SameDayTrade ==
    \A k \in 1..Len(ts_data) :
        LET d == ts_data[k].date
        IN  /\ \A i \in same_day_trades(d) :
                  /\ i \notin DOMAIN active_positions
                  /\ Cardinality(records_of(i)) =
                        IF i \in seq_ids(skipped_trades) THEN 0 ELSE 1
            /\ ts_data[k].active_positions = Cardinality(held_over(d))
            /\ held_over(d) = {} => ts_data[k].invested_capital = Zero

\* The row of a day is written on which a trade was both opened and
\* closed, with nothing else open.
C15_Witness ==
    /\ Len(ts_data) = 1
    /\ \E i \in same_day_trades(ts_data[1].date) : records_of(i) # {}
    /\ ts_data[1].active_positions = 0
    /\ ts_data[1].invested_capital = Zero
    /\ ts_data[1].daily_pnl = Q(50)

\* The nominal position size of the configuration of the run.
nominal_size == Mul(config.initial_capital, config.position_size_percent)

\* C16: the cost_impact of a closed trade is the sum of its entry cost
\* breakdown plus the sum of its exit cost breakdown, divided by
\* initial_capital * position_size_percent (the nominal size, whatever the
\* position committed), and its net_performance is raw_performance minus
\* cost_impact.
C16_CostImpactNominal ==
    \A k \in 1..Len(trade_performances) :
        LET rec   == trade_performances[k]
            costs == trade_costs[k]
        IN  /\ Len(trade_costs) = Len(trade_performances)
            /\ costs.trade_id = rec.trade_id
            /\ rec.cost_impact =
                  Div(Add(Add(Add(costs.entry.commission,
                                  costs.entry.variable), costs.entry.spread),
                          Add(Add(costs.exit.commission,
                                  costs.exit.variable), costs.exit.spread)),
                      nominal_size)
            /\ rec.net_performance =
                  Sub(rec.raw_performance, rec.cost_impact)

\* A trade has closed, with fees, whose position committed less than the
\* nominal size: its variable entry fee is below variable_fee * nominal.
C16_Witness ==
    /\ Gt(config.variable_fee, Zero)
    /\ \E k \in 1..Len(trade_costs) :
          /\ Gt(trade_costs[k].entry.variable, Zero)
          /\ Lt(trade_costs[k].entry.variable,
                Mul(config.variable_fee, nominal_size))
          /\ Gt(trade_performances[k].cost_impact, Zero)

\* The number of strictly positive entries of a column of the trade
\* performance records.
wins(column) ==
    Cardinality({k \in 1..Len(trade_performances) :
                    Gt(trade_performances[k][column], Zero)})

metrics_sound(m, column) ==
    /\ m.total_trades = Len(trade_performances)
    /\ m.profitable_trades = wins(column)
    /\ m.profitable_trades <= m.total_trades
    /\ Le(Zero, m.win_rate)
    /\ Le(m.win_rate, Q(1))
    /\ m.win_rate = Div(Q(m.profitable_trades), Q(m.total_trades))

\* C19: each _calculate_metrics result over a non-empty series (the raw
\* and the net performances of the report) has 0 <= win_rate <= 1 and
\* profitable_trades <= total_trades, where profitable_trades counts the
\* strictly positive entries and total_trades is the length of the series.
C19_MetricsBounds ==
    performance = "report" =>
        /\ trade_performances # <<>>
        /\ metrics_sound(report[1].raw_performance, "raw_performance")
        /\ metrics_sound(report[1].net_performance, "net_performance")

\* A report over a winning and a flat trade, each a net loss or gain: one
\* of the two raw performances wins.
C19_Witness ==
    /\ performance = "report"
    /\ report[1].raw_performance.total_trades >= 2
    /\ report[1].raw_performance.profitable_trades = 1
    /\ \E k \in 1..Len(trade_performances) :
          trade_performances[k].raw_performance = Zero
    /\ \E k \in 1..Len(trade_performances) :
          Lt(trade_performances[k].net_performance, Zero)

\* cost_side(value) = fixed_commission + value * variable_fee
\*                    + value * bid_ask_spread
cost_side(value) ==
    Add(Add(config.fixed_commission, Mul(value, config.variable_fee)),
        Mul(value, config.bid_ask_spread))

\* The entry loop has just committed the trade at the head of new_trades.
TradeOpens ==
    /\ pc = "loop"
    /\ new_trades # <<>>
    /\ Head(new_trades) \in DOMAIN active_positions' \ DOMAIN active_positions

\* C20: the entry cost charged to capital is cost_side(position_size) and
\* the exit cost is cost_side(exit_value) with exit_value = units *
\* exit_price, and the itemized breakdown of each side sums to the cost
\* charged for that side.
C20_CostsCharged ==
    [][/\ TradeOpens =>
             LET pos     == active_positions'[Head(new_trades)]
                 charged == Sub(Sub(available_capital, available_capital'),
                                pos.position_size)
             IN  /\ charged = cost_side(pos.position_size)
                 /\ charged = Sub(daily'.entry_costs, daily.entry_costs)
                 /\ charged = Add(Add(pos.entry_costs.commission,
                                      pos.entry_costs.variable),
                                  pos.entry_costs.spread)
       /\ TradeCloses =>
             LET idx        == Head(closed_trades)
                 pos        == active_positions[idx]
                 costs      == trade_costs'[Len(trade_costs')]
                 exit_value == Mul(pos.units, df[idx].exit_price)
                 charged    == Sub(daily'.exit_costs, daily.exit_costs)
             IN  /\ costs.trade_id = idx
                 /\ charged = cost_side(exit_value)
                 /\ charged = Add(Add(costs.exit.commission,
                                      costs.exit.variable), costs.exit.spread)
                 /\ costs.entry = pos.entry_costs
                 /\ available_capital' =
                       Sub(Add(Add(available_capital, pos.position_size),
                               Sub(daily'.pnl, daily.pnl)), charged)]_vars

\* A position of 500 opened at cost 110 was closed at an exit value of
\* 550, which cost 120.
C20_Witness ==
    /\ Gt(config.variable_fee, Zero)
    /\ \E k \in 1..Len(trade_costs) :
          /\ sum_values(trade_costs[k].entry) = Q(110)
          /\ sum_values(trade_costs[k].exit) = Q(120)

\* C17: a run is a pure function of (trade table, configuration): a request
\* with the inputs of an earlier request of the process gets the outputs
\* that one got, whatever was served in between, and the module-level
\* default configuration is never changed.
C17_RunsArePure ==
    /\ shared_config = trading_config
    /\ pc = "done" =>
          \A k \in 1..Len(earlier) :
              (earlier[k].request = request /\ earlier[k].df = df) =>
                  outputs_of(frame) = earlier[k]

\* The first request, which leaves the commission to the default, has been
\* served again after a request with another commission, and has reported.
C17_Witness ==
    /\ pc = "done"
    /\ Len(earlier) = 2
    /\ earlier[1].request = request
    /\ earlier[2].request # request
    /\ request.params.fixed_commission = None
    /\ performance = "report"
    /\ skipped_trades = <<>>
    /\ earlier[2].returned # <<>>

\* C18: two runs whose steps interleave each own their state: the open
\* positions a run finds in its day loop are those of its own trades, and
\* a run's outputs under any interleaving with another run are the
\* outputs of the same run executed alone.
C18_ConcurrentRunsIsolated ==
    /\ pc = "loop" =>
          \A i \in DOMAIN active_positions :
              /\ i \in seq_ids(trades)
              /\ df[i].entry_date <= date
              /\ i \notin seq_ids(skipped_trades)
    /\ (pc = "done" /\ other = <<>> /\ earlier # <<>>) =>
          outputs_of(frame) = earlier[1]

\* Two runs over different tables are both inside their day loops, each
\* with open positions and capital of its own.
C18_Witness ==
    /\ other # <<>>
    /\ pc = "loop"
    /\ other[1].pc = "loop"
    /\ df # other[1].df
    /\ active_positions # <<>>
    /\ other[1].active_positions # <<>>
    /\ available_capital # other[1].available_capital
    /\ ts_data # <<>>

\* C14: capital exhaustion is observable and harmless: a run that skipped
\* trades for want of capital answers with its report, and what a run
\* returns (the engine's return value and the report) exposes how many
\* trades it skipped, so two runs of one configuration that return the
\* same have skipped the same number of trades.
C14_SkipsObservable ==
    /\ (pc = "done" /\ skipped_trades # <<>>) => performance = "report"
    /\ (/\ other # <<>>
        /\ pc = "done"
        /\ other[1].pc = "done"
        /\ request = other[1].request
        /\ outputs_of(frame).returned = outputs_of(other[1]).returned
        /\ outputs_of(frame).report = outputs_of(other[1]).report)
       => Len(skipped_trades) = Len(other[1].skipped_trades)

\* min(entry_date) and max(exit_date) of the loaded table.
first_day ==
    CHOOSE d \in {df[i].entry_date : i \in DOMAIN df} :
        \A i \in DOMAIN df : d <= df[i].entry_date
last_day ==
    CHOOSE d \in {df[i].exit_date : i \in DOMAIN df} :
        \A i \in DOMAIN df : df[i].exit_date <= d

\* The engine has left its day loop.
LoopLeft ==
    pc \in {"derive", "metrics"}
        \/ (pc = "done" /\ performance \in {"report", "ZeroDivisionError"})

days_visited_in_order ==
    df # <<>> =>
        /\ \A k \in 1..Len(ts_data) : ts_data[k].date = first_day + k - 1
        /\ pc = "loop" =>
              /\ date = first_day + Len(ts_data)
              /\ date <= last_day
        /\ LoopLeft => Len(ts_data) = last_day - first_day + 1

\* What is left to do: the handler's stages, the days after the one at
\* hand, the entries and exits of the day.
stages_left ==
    CASE pc = "config"   -> 6
      [] pc = "query"    -> 5
      [] pc = "simulate" -> 4
      [] pc = "loop"     -> 3
      [] pc = "derive"   -> 2
      [] pc = "metrics"  -> 1
      [] pc = "done"     -> 0
days_left == IF pc = "loop" THEN date_range[2] - date ELSE 0
work_left == IF pc = "loop" THEN Len(new_trades) + Len(closed_trades) ELSE 0

\* C21: the simulation visits every calendar day from min(entry_date) to
\* max(exit_date) once, in ascending order, writing one day row for each
\* (max(exit_date) - min(entry_date) + 1 rows, the days without an entry
\* or an exit included), and then it terminates: every step leaves less
\* to do, in a measure that is bounded below.
C21_EveryDayOnce ==
    [][/\ days_visited_in_order'
       /\ days_left >= 0 /\ days_left' >= 0
       /\ \/ stages_left' < stages_left
          \/ /\ stages_left' = stages_left
             /\ days_left' < days_left
          \/ /\ stages_left' = stages_left
             /\ days_left' = days_left
             /\ work_left' < work_left]_vars

\* A run has ended with three day rows, the second of a day on which no
\* trade enters or exits.
C21_Witness ==
    /\ pc = "done"
    /\ Len(ts_data) = 3
    /\ \A i \in DOMAIN df :
          df[i].entry_date # ts_data[2].date /\ df[i].exit_date # ts_data[2].date

\* The trades of the table that were not skipped.
not_skipped == DOMAIN df \ seq_ids(skipped_trades)

\* C22: in the report total_trades is the number of trades that were
\* opened and closed, the skipped ones left out, and it equals the
\* total_trades of raw_performance and of net_performance and the number
\* of trade cost records.
C22_TotalTrades ==
    performance = "report" =>
        /\ report[1].total_trades = Cardinality(not_skipped)
        /\ report[1].total_trades = Cardinality(record_ids(trade_performances))
        /\ report[1].total_trades = report[1].raw_performance.total_trades
        /\ report[1].total_trades = report[1].net_performance.total_trades
        /\ report[1].total_trades = Len(trade_costs)
        /\ record_ids(trade_costs) = not_skipped

\* A report over a table of which one trade was skipped and one, a losing
\* one, was executed.
C22_Witness ==
    /\ performance = "report"
    /\ Len(skipped_trades) = 1
    /\ report[1].total_trades = 1
    /\ Lt(trade_performances[1].raw_performance, Zero)

\* The documented defaults of the trading configuration.
documented_defaults ==
    [initial_capital       |-> Q(100000),
     position_size_percent |-> Frac(1, 100),
     fixed_commission      |-> Q(1),
     variable_fee          |-> Frac(18, 100000),
     bid_ask_spread        |-> Frac(1, 1000),
     risk_free_rate        |-> Zero]

\* C23: the configuration get_trading_config returns has, in every field,
\* the value the caller supplied when one was supplied (a supplied 0
\* included) and the documented default otherwise.
C23_ConfigMerged ==
    (pc # "config" /\ response # "400") =>
        \A k \in ConfigKeys :
            config[k] = IF request.params[k] # None
                        THEN request.params[k]
                        ELSE documented_defaults[k]

\* A request that supplied fixed_commission = 0 and bid_ask_spread = 0 and
\* left variable_fee out has been answered.
C23_Witness ==
    /\ response = "200"
    /\ request.params.fixed_commission = Zero
    /\ request.params.bid_ask_spread = Zero
    /\ request.params.variable_fee = None
    /\ config.fixed_commission = Zero
    /\ config.variable_fee = Frac(18, 100000)

\* The entry loop is about to process the trade at the head of new_trades.
AtEntryStep == pc = "loop" /\ new_trades # <<>>

\* C24: at an entry step the trade is committed if and only if the
\* candidate position_size = min(available_capital * position_size_percent,
\* available_capital) is > 0 and the entry cost is < available_capital,
\* and skipped otherwise; a commit takes position_size + entry cost from
\* available_capital, adds position_size to invested_capital and leaves
\* the day's pnl alone.
C24_CommitIffAffordable ==
    [][AtEntryStep =>
          LET idx           == Head(new_trades)
              position_size ==
                  Min2(Mul(available_capital, config.position_size_percent),
                       available_capital)
              entry_cost    == cost_side(position_size)
              affordable    == /\ Gt(position_size, Zero)
                               /\ Lt(entry_cost, available_capital)
          IN  /\ idx \in DOMAIN active_positions' <=> affordable
              /\ idx \in seq_ids(skipped_trades') <=> ~affordable
              /\ affordable =>
                    /\ available_capital' =
                          Sub(available_capital,
                              Add(position_size, entry_cost))
                    /\ invested_capital' =
                          Add(invested_capital, position_size)
                    /\ active_positions'[idx].position_size = position_size
                    /\ daily'.pnl = daily.pnl]_vars

\* On one day an entry was committed at a cost and the next one skipped.
C24_Witness ==
    /\ pc = "loop"
    /\ new_trades = <<>>
    /\ skipped_trades # <<>>
    /\ active_positions # <<>>
    /\ Gt(daily.entry_costs, Zero)
    /\ \A i \in seq_ids(skipped_trades) : df[i].entry_date = date

\* C25: available_capital is never negative in a run with a valid
\* configuration over valid rows: not after a committed entry, not after
\* an exit, and in no day row.
C25_CapitalNeverNegative ==
    /\ Ge(available_capital, Zero)
    /\ \A k \in 1..Len(ts_data) : Ge(ts_data[k].available_capital, Zero)

\* The day rows carry their derived columns.
Derived ==
    pc = "metrics"
        \/ (pc = "done" /\ performance \in {"report", "ZeroDivisionError"})

total_capital == Add(available_capital, invested_capital)

rows_conserve_capital ==
    Derived =>
        \A k \in 1..Len(ts_data) :
            LET row == ts_data[k]
            IN  /\ row.total_capital =
                      Sub(Add(config.initial_capital, row.cumulative_pnl),
                          row.cumulative_costs)
                /\ Sub(row.total_capital, config.initial_capital) =
                      row.net_performance
                /\ row.performance_pct =
                      Div(Sub(row.total_capital, config.initial_capital),
                          config.initial_capital)

\* The pnl and the costs booked up to and including day row k.
pnl_to(k) == Sum([j \in 1..k |-> ts_data[j].daily_pnl])
costs_to(k) == Sum([j \in 1..k |-> ts_data[j].daily_costs])

\* C26: capital is conserved: on every day row total_capital =
\* initial_capital + cumulative_pnl - cumulative_costs, so that
\* total_capital - initial_capital is the row's net_performance and
\* performance_pct is that over initial_capital; inside a day the total
\* capital is the initial capital plus every pnl less every cost booked
\* so far, so an entry changes it by its entry cost only and an exit by
\* its pnl less its exit cost.
C26_CapitalConserved ==
    /\ rows_conserve_capital
    /\ (pc = "loop" \/ Derived) =>
          \A k \in 1..Len(ts_data) :
              ts_data[k].total_capital =
                  Sub(Add(config.initial_capital, pnl_to(k)), costs_to(k))
    /\ pc = "loop" =>
          total_capital =
              Sub(Add(config.initial_capital,
                      Add(pnl_to(Len(ts_data)), daily.pnl)),
                  Add(costs_to(Len(ts_data)),
                      Add(daily.entry_costs, daily.exit_costs)))

\* A run with fees has ended with costs and pnl on its rows and a total
\* capital other than the initial one.
C26_Witness ==
    /\ pc = "done"
    /\ performance = "report"
    /\ Gt(ts_data[Len(ts_data)].cumulative_costs, Zero)
    /\ ts_data[Len(ts_data)].cumulative_pnl # Zero
    /\ Gt(config.variable_fee, Zero)
    /\ Len(ts_data) >= 2

\* The sum of position_size over the positions of a map.
RECURSIVE committed_total(_)
committed_total(positions) ==
    IF DOMAIN positions = {} THEN Zero
    ELSE LET i == CHOOSE j \in DOMAIN positions : TRUE
         IN  Add(positions[i].position_size,
                 committed_total([j \in DOMAIN positions \ {i} |->
                                     positions[j]]))

\* The day's entries and exits are done.
EndOfDay == pc = "loop" /\ new_trades = <<>> /\ closed_trades = <<>>

\* C27: at the end of every day step invested_capital is the sum of
\* position_size over the open-position map, the row's active_positions is
\* the size of the map, and invested_capital is 0 exactly when the map is
\* empty; a position is in the map only from its committed entry to its
\* exit.
C27_InvestedIsOpenPositions ==
    /\ pc = "loop" =>
          /\ invested_capital = committed_total(active_positions)
          /\ invested_capital = Zero <=> active_positions = <<>>
          /\ \A i \in DOMAIN active_positions :
                /\ df[i].entry_date <= date
                /\ date <= df[i].exit_date
                /\ i \notin seq_ids(skipped_trades)
                /\ i \notin record_ids(trade_performances)
    /\ EndOfDay =>
          \A i \in DOMAIN active_positions : date < df[i].exit_date
    /\ (/\ ts_data # <<>>
        /\ \/ LoopLeft
           \/ /\ pc = "loop"
              /\ new_trades = entries_on(df, trades, date)
              /\ closed_trades = exits_on(df, trades, date)) =>
          LET row == ts_data[Len(ts_data)]
          IN  /\ row.active_positions = Cardinality(DOMAIN active_positions)
              /\ row.invested_capital = invested_capital

\* A day has ended with two positions open.
C27_Witness ==
    /\ EndOfDay
    /\ Cardinality(DOMAIN active_positions) = 2
    /\ Gt(invested_capital, Zero)

cost_records_of(i) ==
    {k \in 1..Len(trade_costs) : trade_costs[k].trade_id = i}

\* C28: over a table whose rows have entry_date <= exit_date and distinct
\* row identifiers, every position that is opened is closed on its
\* exit_date: no position is open past its exit day, the last day row has
\* active_positions = 0 and invested_capital = 0, and every committed
\* trade has exactly one performance record and one cost record.
C28_OpenedIsClosed ==
    /\ pc = "loop" =>
          \A i \in DOMAIN df :
              /\ i \in DOMAIN active_positions => date <= df[i].exit_date
              /\ records_of(i) # {} => df[i].exit_date <= date
    /\ (LoopLeft /\ ts_data # <<>>) =>
          /\ active_positions = <<>>
          /\ ts_data[Len(ts_data)].active_positions = 0
          /\ ts_data[Len(ts_data)].invested_capital = Zero
          /\ \A i \in not_skipped :
                /\ Cardinality(records_of(i)) = 1
                /\ Cardinality(cost_records_of(i)) = 1
          /\ Len(trade_performances) = Cardinality(not_skipped)
          /\ Len(trade_costs) = Cardinality(not_skipped)

\* A run has ended in which two trades were committed and both closed
\* on the last day.
C28_Witness ==
    /\ LoopLeft
    /\ Len(ts_data) >= 2
    /\ Len(trade_performances) = 2
    /\ ts_data[Len(ts_data) - 1].active_positions = 2
    /\ ts_data[Len(ts_data)].active_positions = 0

\* The sum of the 'total' fields of the trade cost records.
recorded_costs == Sum([k \in 1..Len(trade_costs) |-> trade_costs[k].total])

\* The entry costs of the positions of a map.
RECURSIVE open_entry_costs(_)
open_entry_costs(positions) ==
    IF DOMAIN positions = {} THEN Zero
    ELSE LET i == CHOOSE j \in DOMAIN positions : TRUE
             c == positions[i].entry_costs
         IN  Add(Add(Add(c.commission, c.variable), c.spread),
                 open_entry_costs([j \in DOMAIN positions \ {i} |->
                                      positions[j]]))

\* C29: costs reconcile: the report's total_costs, the last
\* cumulative_costs, is the sum of the 'total' fields of the trade cost
\* records and is costs.breakdown.entry.total + costs.breakdown.exit.total;
\* during the run the costs charged so far are those of the cost records
\* plus the entry costs of the positions still open, so no cost is charged
\* without reaching a cost record and none is recorded without a charge.
C29_CostsReconcile ==
    /\ performance = "report" =>
          /\ report[1].total_costs = ts_data[Len(ts_data)].cumulative_costs
          /\ report[1].total_costs = recorded_costs
          /\ report[1].total_costs =
                Add(report[1].costs.breakdown.entry.total,
                    report[1].costs.breakdown.exit.total)
          /\ report[1].costs.total_costs = report[1].total_costs
    /\ pc = "loop" =>
          Add(costs_to(Len(ts_data)),
              Add(daily.entry_costs, daily.exit_costs)) =
          Add(recorded_costs, open_entry_costs(active_positions))

\* A report with fees over two executed trades, its costs above zero.
C29_Witness ==
    /\ performance = "report"
    /\ Len(trade_costs) = 2
    /\ Gt(config.bid_ask_spread, Zero)
    /\ Gt(report[1].costs.breakdown.exit.spread, Zero)
    /\ Gt(report[1].total_costs, Q(400))

-----------------------------------------------------------------------------
(* The notebook runner's job table *)

Terminal == {"completed", "failed"}

\* The status changes a job may make.
StatusMoves ==
    {<<"pending", "running">>, <<"running", "completed">>,
     <<"pending", "failed">>, <<"running", "failed">>}

\* Every job starts as pending with progress 0.0, keeps its entry, and
\* changes status only along StatusMoves, never out of a terminal status.
JobStatusMoves ==
    [][/\ \A j \in DOMAIN jobs' \ DOMAIN jobs :
             jobs'[j] = job_entry("pending", 0)
       /\ \A j \in DOMAIN jobs :
             /\ j \in DOMAIN jobs'
             /\ \/ jobs'[j].status = jobs[j].status
                \/ <<jobs[j].status, jobs'[j].status>> \in StatusMoves]_vars

\* A step of one job's task leaves the entries of all other jobs alone.
JobsIsolated ==
    [][\A j \in DOMAIN tasks :
          tasks'[j] # tasks[j] =>
             \A i \in DOMAIN jobs \ {j} : jobs'[i] = jobs[i]]_vars

\* Under FairRunner every job is completed or failed in the end.
JobsFinish ==
    \A j \in JobIds :
        (j \in DOMAIN jobs)
            ~> (j \in DOMAIN jobs /\ jobs[j].status \in Terminal)

\* Once the task has returned, status and progress agree.
ReturnedJobsAgree ==
    \A j \in DOMAIN jobs :
        tasks[j] = "returned" =>
            \/ jobs[j] = job_entry("completed", 100)
            \/ jobs[j] = job_entry("failed", 0)

\* progress is 1.0 exactly when the status is completed, and 0.0 when the
\* status is failed.
progress_matches_status(entry) ==
    /\ entry.progress = 100 <=> entry.status = "completed"
    /\ entry.status = "failed" => entry.progress = 0

\* C30: every job's entry, in the table and in every answer of GET /status,
\* has progress 1.0 exactly when its status is completed and progress 0.0
\* when its status is failed.  Violated: the status is written one statement
\* before the progress (lines 274-275 and 279-280).
C30_ProgressMatchesStatus ==
    /\ \A j \in DOMAIN jobs : progress_matches_status(jobs[j])
    /\ Len(status_response) = 1
          => progress_matches_status(status_response[1])

\* Two jobs whose tasks interleave: one failed while the other is running.
RunnerInterleaves ==
    \E i, j \in DOMAIN jobs :
        /\ jobs[i] = job_entry("failed", 0)
        /\ tasks[i] = "returned"
        /\ jobs[j].status = "running"
        /\ jobs[j].progress = 70

=============================================================================
